---- MODULE Spec2Model ----
(***************************************************************************)
(* Model of the card module of judgebot (src/modules/card.js):             *)
(*   - scoreHit and the sort in getCards          (specification SpecScore)*)
(*   - parseGathererRulings                     (specification SpecRulings)*)
(*   - handleMessage, getCards, generateEmbed and the reaction pager       *)
(*     built in handleMessage                        (specification Spec)  *)
(* Strings are sequences of one-character strings.                         *)
(***************************************************************************)
EXTENDS Integers, Sequences, FiniteSets, TLC

VARIABLES
    \* ---- scorer (getCards sort, scoreHit)
    spc,        \* "query" (inputs drawn) | "sorted" | "noop"
    parameter,  \* the parameter handleMessage was called with
    bodyData,   \* body.data of the primary search: a sequence of cards
    apiData,    \* body.data as the API returned it (before the sort)
    \* ---- rulings parser (parseGathererRulings)
    rpc,        \* "each" (inside $(...).each) | "done" (returned)
    rows,       \* the rows of .rulingsTable: [date, text] lengths
    ridx,       \* index of the next row the each callback gets
    rulings,    \* the rulings array
    cutAt,      \* row at which the callback returned false (0: none)
    joined,     \* length of the returned string (-1 before the return)
    \* ---- handleMessage and its pager
    pc,         \* where the handling of the message stands
    command,    \* the command handleMessage was called with
    data,       \* body.data: the result list the pager rotates
    channel,    \* the messages passed to msg.channel.send, in order
    displayed,  \* the embed the sent message shows
    pending,    \* generateEmbed calls of the pager waiting for their rulings
    now,        \* the clock, in milliseconds
    created,    \* when the reaction collector was created
    genCalls,   \* calls of generateEmbed
    edits,      \* calls of sentMessage.edit
    unhandled,  \* promise rejections no handler was attached to
    primary,    \* how the primary search ended
    fuzzy,      \* how the fuzzy fallback ended, with the status of its answer
    \* ---- history variables (not state of the program)
    accepted,   \* reaction events handed to handleReaction
    firstData,  \* the list as first rendered
    lastAction, \* the last accepted action: glyph, user, the list before, time
    dropped     \* why the last event not handed to handleReaction was dropped:
                \* "filter" (the filter refused it) or "ended" (the collector
                \* had ended and the filter would have let it pass)

scoreVars == <<spc, parameter, bodyData, apiData>>
rulingVars == <<rpc, rows, ridx, rulings, cutAt, joined>>

pagerVars == <<pc, command, data, channel, displayed, pending, now, created,
               genCalls, edits, unhandled, primary, fuzzy,
               accepted, firstData, lastAction, dropped>>

vars == <<scoreVars, rulingVars, pagerVars>>

(***************************************************************************)
(* Each specification runs one part of the module; the variables of the    *)
(* other parts rest at these values.                                       *)
(***************************************************************************)
NoResponse == [result |-> "-", status |-> 0]
NoEmbed == [card |-> 0, image |-> FALSE, view |-> "-"]
NoAction == [glyph |-> "-", user |-> "-", before |-> <<>>, at |-> 0]

PagerIdle ==
    /\ pc = "idle" /\ command = "-" /\ data = <<>> /\ channel = <<>>
    /\ displayed = NoEmbed /\ pending = <<>> /\ now = 0 /\ created = 0
    /\ genCalls = 0 /\ edits = 0 /\ unhandled = 0
    /\ primary = "-" /\ fuzzy = NoResponse
    /\ accepted = 0 /\ firstData = <<>> /\ lastAction = NoAction /\ dropped = "-"

RulingsIdle ==
    /\ rpc = "done" /\ rows = <<>> /\ ridx = 1 /\ rulings = <<>>
    /\ cutAt = 0 /\ joined = 0

ScoreIdle ==
    /\ spc = "noop" /\ parameter = <<>> /\ bodyData = <<>> /\ apiData = <<>>

(***************************************************************************)
(* Bounds of the scorer's inputs.                                          *)
(***************************************************************************)
MaxNameLen == 2
MaxQueryLen == 3
MaxHits == 2
LongLen == 101

RECURSIVE SeqsUpTo(_, _)
SeqsUpTo(S, n) ==
    IF n = 0 THEN {<<>>}
    ELSE LET shorter == SeqsUpTo(S, n - 1)
         IN  shorter \cup {Append(s, c) : s \in shorter, c \in S}

NameChars == {"a", "b", "A", "-"}
QueryChars == {"a", "b", " ", ":"}
LongName == [i \in 1..LongLen |-> "a"]
Names == (SeqsUpTo(NameChars, MaxNameLen) \ {<<>>}) \cup {LongName}
\* printed_name: absent (<<>>, falsy) or a translated name; "?" stands for a letter
\* of another script (outside a-z0-9)
PrintedNames == {<<>>, <<"?">>}
Params == SeqsUpTo(QueryChars, MaxQueryLen) \cup {LongName}
ScoreCards == [name : Names, printed_name : PrintedNames]
HitLists == SeqsUpTo(ScoreCards, MaxHits)

(***************************************************************************)
(* String helpers: what toLowerCase, replace(/[^a-z0-9]/g,''), split(" "), *)
(* filter and join do.                                                     *)
(***************************************************************************)
LowerOf(c) == IF c = "A" THEN "a" ELSE IF c = "B" THEN "b" ELSE c
toLowerCase(s) == [i \in 1..Len(s) |-> LowerOf(s[i])]
IsAlnum(c) == c \in {"a", "b", "0", "1"}
IsOperatorChar(c) == c \in {"=", ":", "(", ")", ">", "<"}
stripNonAlnum(s) == SelectSeq(s, IsAlnum)

RECURSIVE splitSpace(_)
\* s.split(" "): the tokens between single spaces, empty tokens kept
splitSpace(s) ==
    IF \A i \in 1..Len(s) : s[i] # " " THEN <<s>>
    ELSE LET k == CHOOSE i \in 1..Len(s) :
                      s[i] = " " /\ \A j \in 1..(i - 1) : s[j] # " "
         IN  <<SubSeq(s, 1, k - 1)>> \o splitSpace(SubSeq(s, k + 1, Len(s)))

HasOperator(tok) == \E i \in 1..Len(tok) : IsOperatorChar(tok[i])
NoOperator(tok) == ~HasOperator(tok)

RECURSIVE joinSpace(_)
joinSpace(toks) ==
    IF Len(toks) = 0 THEN <<>>
    ELSE IF Len(toks) = 1 THEN toks[1]
    ELSE toks[1] \o <<" ">> \o joinSpace(Tail(toks))

IsPrefix(p, s) == Len(p) <= Len(s) /\ SubSeq(s, 1, Len(p)) = p

(***************************************************************************)
(* scoreHit (card.js 300-315).  A score is the fraction num/den; den = 0   *)
(* is the JavaScript value Infinity (a positive number divided by zero).   *)
(***************************************************************************)
displayName(card) ==
    IF card.printed_name # <<>> THEN card.printed_name ELSE card.name
normName(card) == stripNonAlnum(toLowerCase(displayName(card)))
nameQuery(query) ==
    stripNonAlnum(toLowerCase(joinSpace(SelectSeq(splitSpace(query), NoOperator))))

ExactScore == 10000
PrefixFactor == 1000
AnywhereFactor == 100

scoreHit(card, query) ==
    LET name == normName(card)
        nq == nameQuery(query)
    IN  IF name = nq THEN [num |-> ExactScore, den |-> 1]
        ELSE IF IsPrefix(nq, name)
        THEN [num |-> PrefixFactor * Len(nq), den |-> Len(name)]
        ELSE [num |-> AnywhereFactor * Len(nq), den |-> Len(name)]

IsInfinity(s) == s.den = 0
\* s > t on the numbers the fractions denote
ScoreGt(s, t) ==
    IF IsInfinity(s) THEN ~IsInfinity(t)
    ELSE IF IsInfinity(t) THEN FALSE
    ELSE s.num * t.den > t.num * s.den

\* the comparator of the sort: the sign of scoreHit(b) - scoreHit(a);
\* Infinity - Infinity is NaN, which sort treats as 0
compareHits(a, b, query) ==
    IF ScoreGt(scoreHit(b, query), scoreHit(a, query)) THEN 1
    ELSE IF ScoreGt(scoreHit(a, query), scoreHit(b, query)) THEN -1
    ELSE 0

RECURSIVE insertHit(_, _, _)
\* x goes behind every element that does not compare after it (stable)
insertHit(sorted, x, query) ==
    IF sorted = <<>> THEN <<x>>
    ELSE IF compareHits(sorted[1], x, query) <= 0
    THEN <<sorted[1]>> \o insertHit(Tail(sorted), x, query)
    ELSE <<x>> \o sorted

RECURSIVE sortHits(_, _)
sortHits(hits, query) ==
    IF hits = <<>> THEN <<>>
    ELSE insertHit(sortHits(SubSeq(hits, 1, Len(hits) - 1), query),
                   hits[Len(hits)], query)

(***************************************************************************)
(* parseGathererRulings (card.js 141-152).  Only lengths matter: a row is  *)
(* '**' + date + ':** ' + text, the array is joined with '\n'.             *)
(***************************************************************************)
MaxRows == 3
RulingsLimit == 2040
EllipsisLen == 3
DateLens == {9, 10}
TextLens == {0, 1, 1000, 1004, 1005, 1006, 1007, 2030}
RowShapes == [date : DateLens, text : TextLens]
Pages == SeqsUpTo(RowShapes, MaxRows)

\* '**' (2) + date + ':** ' (4) + text
rowEntry(i, row) == [kind |-> "row", row |-> i, len |-> 2 + row.date + 4 + row.text]
ellipsisEntry == [kind |-> "...", row |-> 0, len |-> EllipsisLen]

RECURSIVE sumLen(_)
sumLen(entries) ==
    IF entries = <<>> THEN 0 ELSE entries[1].len + sumLen(Tail(entries))
\* rulings.join('\n').length
joinLength(entries) ==
    IF entries = <<>> THEN 0 ELSE sumLen(entries) + (Len(entries) - 1)

\* a slip: the row that went over the limit is kept
cutOffKeepsRow(entries) == entries
\* rulings[rulings.length - 1] = '...'
cutOff(entries) == [entries EXCEPT ![Len(entries)] = ellipsisEntry]

InitRulings ==
    /\ rpc = "each"
    /\ rows \in Pages
    /\ ridx = 1
    /\ rulings = <<>>
    /\ cutAt = 0
    /\ joined = -1
    /\ ScoreIdle
    /\ PagerIdle

\* one call of the each callback
EachRow ==
    /\ rpc = "each"
    /\ cutAt = 0
    /\ ridx <= Len(rows)
    /\ LET pushed == Append(rulings, rowEntry(ridx, rows[ridx]))
       IN  IF joinLength(pushed) > RulingsLimit
           THEN /\ rulings' = cutOff(pushed)
                /\ cutAt' = ridx
                /\ ridx' = ridx
           ELSE /\ rulings' = pushed
                /\ cutAt' = 0
                /\ ridx' = ridx + 1
    /\ UNCHANGED <<rpc, rows, joined, scoreVars, pagerVars>>

\* each is over (no row left, or the callback returned false): return the join
ReturnJoined ==
    /\ rpc = "each"
    /\ (cutAt # 0 \/ ridx > Len(rows))
    /\ joined' = joinLength(rulings)
    /\ rpc' = "done"
    /\ UNCHANGED <<rows, ridx, rulings, cutAt, scoreVars, pagerVars>>

NextRulings == EachRow \/ ReturnJoined

SpecRulings == InitRulings /\ [][NextRulings]_vars

Returned == rpc = "done" /\ joined >= 0

\* the entries the untouched rows first..last of the page give
rowEntries(first, last) == [i \in 1..(last - first + 1) |-> rowEntry(first + i - 1, rows[first + i - 1])]

\* when rows were cut off, the last entry is the ellipsis, the entries before
\* it are the rows before the cut-off row, and no later row is included
CutOffShape ==
    cutAt # 0 =>
        /\ rulings[Len(rulings)] = ellipsisEntry
        /\ SubSeq(rulings, 1, Len(rulings) - 1) = rowEntries(1, cutAt - 1)
        /\ \A k \in 1..Len(rulings) : rulings[k].row < cutAt

\* C10 as stated: the returned string is at most 2040 characters long, and
\* when rows were cut off the last entry is '...' and no later row is included.
C10_AtMostLimit ==
    Returned => (joined <= RulingsLimit /\ CutOffShape)

\* C10 amended: the returned string is at most 2040 + 1 + 3 = 2044 characters
\* long (the ellipsis and its newline are added after the check), at most 2040
\* when nothing was cut off; the cut-off shape is as stated.
C10_AtMostLimitPlusEllipsis ==
    Returned =>
        /\ joined = joinLength(rulings)
        /\ joined <= RulingsLimit + 1 + EllipsisLen
        /\ (cutAt = 0 => (joined <= RulingsLimit /\ rulings = rowEntries(1, Len(rows))))
        /\ CutOffShape

C10_Witness ==
    /\ Returned
    /\ cutAt = 3
    /\ joined = RulingsLimit + 1 + EllipsisLen

(***************************************************************************)
(* Specification SpecScore: handleMessage lower-cases the parameter, an    *)
(* empty card name is a no-op, getCards sorts a non-empty body.data.       *)
(***************************************************************************)
cardNameOf(p) == toLowerCase(p)

InitScore ==
    /\ spc = "query"
    /\ parameter \in Params
    /\ apiData \in HitLists
    /\ bodyData = apiData
    /\ RulingsIdle
    /\ PagerIdle

NoLookup ==
    /\ spc = "query"
    /\ cardNameOf(parameter) = <<>>
    /\ spc' = "noop"
    /\ UNCHANGED <<parameter, bodyData, apiData, rulingVars, pagerVars>>

GetCardsSort ==
    /\ spc = "query"
    /\ cardNameOf(parameter) # <<>>
    /\ bodyData' = IF Len(bodyData) > 0
                   THEN sortHits(bodyData, cardNameOf(parameter))
                   ELSE bodyData
    /\ spc' = "sorted"
    /\ UNCHANGED <<parameter, apiData, rulingVars, pagerVars>>

NextScore == NoLookup \/ GetCardsSort

SpecScore == InitScore /\ [][NextScore]_vars

IsExact(card) == normName(card) = nameQuery(cardNameOf(parameter))

\* C1: a candidate whose normalized name equals the normalized query scores
\* strictly higher than every candidate whose normalized name differs, and
\* stands before every such candidate after the sort.
C1_ExactFirst ==
    spc = "sorted" =>
        /\ \A i, j \in 1..Len(bodyData) :
               (IsExact(bodyData[i]) /\ ~IsExact(bodyData[j])) =>
                   ScoreGt(scoreHit(bodyData[i], cardNameOf(parameter)),
                           scoreHit(bodyData[j], cardNameOf(parameter)))
        /\ \A i, j \in 1..Len(bodyData) :
               (IsExact(bodyData[i]) /\ ~IsExact(bodyData[j])) => i < j

(***************************************************************************)
(* handleMessage (card.js 324-376), getCards (277-293), generateEmbed      *)
(* (196-270) and the pager: handleReaction (344-357) behind the reaction   *)
(* collector (359-362).                                                    *)
(*                                                                         *)
(* A card of the result list is [id, zoom, kind]: id is its place in the   *)
(* list the resolver returned, zoom the flag handleReaction toggles        *)
(* (absent, so falsy, in a fetched card), kind what generateEmbed meets:   *)
(*   "rulings"  related_uris.gatherer is set                               *)
(*   "plain"    related_uris has no gatherer link                          *)
(*   "broken"   a field the builder dereferences is missing (card.set of   *)
(*              a card with a type_line, line 162): the executor throws    *)
(* An embed is [card, image, view]: the front card it was built from,      *)
(* whether the full image is shown (card.zoom, line 240) and the command   *)
(* it was built for.                                                       *)
(***************************************************************************)
MaxCards == 3
MaxActions == 3
MaxTicks == 2
TickMs == 150000
CollectorTime == 5 * 60 * 1000

Commands == {"card", "ruling"}
CardKinds == {"rulings", "plain", "broken"}
Glyphs == {"left", "right", "zoom", "thumbsup"}
Users == {"requester", "other"}
Requester == "requester"
PagerParams == {<<>>, <<"a">>}
FailStatus == {404, 503}

newCards(kinds) == [i \in 1..Len(kinds) |-> [id |-> i, zoom |-> FALSE, kind |-> kinds[i]]]
\* the result lists tried: cards with rulings, then one card of any kind
\* (paging brings it to every place of the list)
KindLists ==
    {kinds \in SeqsUpTo(CardKinds, MaxCards) \ {<<>>} :
        \A i \in 1..(Len(kinds) - 1) : kinds[i] = "rulings"}

\* command.match(/^ruling/)
isRuling(cmd) == cmd \in {"ruling", "rulings"}

\* a slip: the front card is put in front again, the popped one is lost
previousCardLosesLast(cards) == <<cards[1]>> \o SubSeq(cards, 1, Len(cards) - 1)
\* a slip: two cards are moved to the back
nextCardByTwo(cards) ==
    IF Len(cards) < 2 THEN cards ELSE Tail(Tail(cards)) \o <<cards[1], cards[2]>>
\* a slip: the card that leaves the front loses its zoom flag
nextCardClearsZoom(cards) == Tail(cards) \o <<[cards[1] EXCEPT !.zoom = FALSE]>>

\* body.data.unshift(body.data.pop())
previousCard(cards) == <<cards[Len(cards)]>> \o SubSeq(cards, 1, Len(cards) - 1)
\* body.data.push(body.data.shift())
nextCard(cards) == Tail(cards) \o <<cards[1]>>
\* body.data[0].zoom = !body.data[0].zoom
toggleZoom(cards) == [cards EXCEPT ![1].zoom = ~cards[1].zoom]

\* a slip: the pager always renders the card view
renderCommandCard(cmd) == "card"
\* the command handleReaction passes to generateEmbed
renderCommand(cmd) == cmd

\* the embed generateEmbed builds from the front card
buildEmbed(cards, cmd) == [card |-> cards[1].id, image |-> cards[1].zoom, view |-> cmd]

\* how the promise of generateEmbed ends: the executor throws ("rejected"),
\* it waits for the rulings request ("fetching"), or it resolves at once
embedOutcome(cards, cmd) ==
    IF cards[1].kind = "broken" THEN "rejected"
    ELSE IF isRuling(cmd) /\ cards[1].kind = "rulings" THEN "fetching"
    ELSE "resolved"

\* a slip: the filter does not look at the user
filterAnyUser(glyph, user) == glyph \in {"left", "right", "zoom"}
\* a slip: the collector is given idle instead of time
collectorEndIdle(createdAt, lastCollectAt) == lastCollectAt + CollectorTime

\* the filter of the reaction collector
filter(glyph, user) == glyph \in {"left", "right", "zoom"} /\ user = Requester

\* when the collector ends: options.time after its creation
collectorEnd(createdAt, lastCollectAt) == createdAt + CollectorTime

errorDescription(status) ==
    IF status = 503 THEN "Scryfall is currently offline, please try again later."
    ELSE "No cards matched"

Init ==
    /\ PagerIdle
    /\ ScoreIdle
    /\ RulingsIdle

\* handleMessage up to the request of getCards
HandleMessage(cmd, p) ==
    /\ pc = "idle"
    /\ command' = cmd
    /\ parameter' = p
    /\ pc' = IF toLowerCase(p) = <<>> THEN "done" ELSE "primary"
    /\ UNCHANGED <<data, channel, displayed, pending, now, created, genCalls, edits,
                   unhandled, primary, fuzzy, accepted, firstData, lastAction, dropped,
                   spc, bodyData, apiData, rulingVars>>

\* the callback of getCards(...).then with a non-empty body.data: the first
\* generateEmbed; a resolved embed goes to msg.channel.send, a rejection is
\* logged and the TypeError of sentMessage.react on undefined is swallowed
FirstRender(cards) ==
    /\ data' = cards
    /\ genCalls' = genCalls + 1
    /\ pc' = CASE embedOutcome(cards, command) = "rejected" -> "done"
               [] embedOutcome(cards, command) = "fetching" -> "fetch1"
               [] OTHER -> "sending"
    /\ UNCHANGED <<command, channel, displayed, pending, now, created, edits, unhandled,
                   accepted, firstData, lastAction, dropped, scoreVars, rulingVars>>

\* the primary search answers with hits
PrimaryHits(kinds) ==
    /\ pc = "primary"
    /\ primary' = "hits"
    /\ UNCHANGED fuzzy
    /\ FirstRender(newCards(kinds))

\* the primary search answers without hits: body.data is empty or missing
PrimaryEmpty ==
    /\ pc = "primary"
    /\ primary' = "empty"
    /\ pc' = "done"
    /\ UNCHANGED <<command, data, channel, displayed, pending, now, created, genCalls,
                   edits, unhandled, fuzzy, accepted, firstData, lastAction, dropped,
                   scoreVars, rulingVars>>

\* the primary search fails: the fuzzy request is sent
PrimaryFail ==
    /\ pc = "primary"
    /\ primary' = "fail"
    /\ pc' = "fuzzy"
    /\ UNCHANGED <<command, data, channel, displayed, pending, now, created, genCalls,
                   edits, unhandled, fuzzy, accepted, firstData, lastAction, dropped,
                   scoreVars, rulingVars>>

\* the fuzzy search answers with a card: resolve({data: [response]})
FuzzyCard(kind) ==
    /\ pc = "fuzzy"
    /\ fuzzy' = [result |-> "card", status |-> 200]
    /\ UNCHANGED primary
    /\ FirstRender(newCards(<<kind>>))

\* the fuzzy search answers with an empty response: data is [undefined],
\* generateEmbed throws on card.printed_name
FuzzyNothing ==
    /\ pc = "fuzzy"
    /\ fuzzy' = [result |-> "nothing", status |-> 200]
    /\ UNCHANGED primary
    /\ FirstRender(newCards(<<"broken">>))

\* the fuzzy search fails: getCards rejects, the catch sends the error embed
FuzzyFail(status) ==
    /\ pc = "fuzzy"
    /\ fuzzy' = [result |-> "fail", status |-> status]
    /\ channel' = Append(channel, [kind |-> "error", description |-> errorDescription(status)])
    /\ pc' = "done"
    /\ UNCHANGED <<command, data, displayed, pending, now, created, genCalls, edits,
                   unhandled, primary, accepted, firstData, lastAction, dropped,
                   scoreVars, rulingVars>>

\* the rulings request of the first render answers: the embed resolves
FirstRulingsOk ==
    /\ pc = "fetch1"
    /\ pc' = "sending"
    /\ UNCHANGED <<command, data, channel, displayed, pending, now, created, genCalls,
                   edits, unhandled, primary, fuzzy, accepted, firstData, lastAction,
                   dropped, scoreVars, rulingVars>>

\* it fails: rp(...).then has no rejection handler and resolve is never called
FirstRulingsFail ==
    /\ pc = "fetch1"
    /\ pc' = "done"
    /\ unhandled' = unhandled + 1
    /\ UNCHANGED <<command, data, channel, displayed, pending, now, created, genCalls,
                   edits, primary, fuzzy, accepted, firstData, lastAction, dropped,
                   scoreVars, rulingVars>>

\* msg.channel.send resolves: the reaction collector is created
SendOk ==
    /\ pc = "sending"
    /\ channel' = Append(channel, [kind |-> "card", description |-> "-"])
    /\ displayed' = buildEmbed(data, command)
    /\ created' = now
    /\ firstData' = data
    /\ lastAction' = [NoAction EXCEPT !.at = now]
    /\ pc' = "active"
    /\ UNCHANGED <<command, data, pending, now, genCalls, edits, unhandled, primary,
                   fuzzy, accepted, dropped, scoreVars, rulingVars>>

\* msg.channel.send rejects: logged, then swallowed; no message, no pager
SendFail ==
    /\ pc = "sending"
    /\ pc' = "done"
    /\ UNCHANGED <<command, data, channel, displayed, pending, now, created, genCalls,
                   edits, unhandled, primary, fuzzy, accepted, firstData, lastAction,
                   dropped, scoreVars, rulingVars>>

\* time passes; the timer of the collector fires when its time is up
Tick ==
    /\ pc = "active"
    /\ now + TickMs <= MaxTicks * TickMs
    /\ now' = now + TickMs
    /\ pc' = IF pc = "active" /\ now' >= collectorEnd(created, lastAction.at)
             THEN "expired" ELSE pc
    /\ UNCHANGED <<command, data, channel, displayed, pending, created, genCalls, edits,
                   unhandled, primary, fuzzy, accepted, firstData, lastAction, dropped,
                   scoreVars, rulingVars>>

\* handleReaction's update of the list
applyGlyph(cards, glyph) ==
    IF glyph = "left" THEN previousCard(cards)
    ELSE IF glyph = "right" THEN nextCard(cards)
    ELSE toggleZoom(cards)

\* sentMessage.edit('', {embed}): the message shows the embed, or the edit is
\* rejected; its promise is not returned, so nothing handles the rejection
Edit(embed, ok) ==
    /\ edits' = edits + 1
    /\ displayed' = IF ok THEN embed ELSE displayed
    /\ unhandled' = IF ok THEN unhandled ELSE unhandled + 1

\* handleReaction: the list update, then generateEmbed and the edit
handleReaction(glyph, user) ==
    /\ accepted' = accepted + 1
    /\ lastAction' = [glyph |-> glyph, user |-> user, before |-> data, at |-> now]
    /\ data' = applyGlyph(data, glyph)
    /\ genCalls' = genCalls + 1
    /\ LET cmd == renderCommand(command)
           out == embedOutcome(data', cmd)
       IN  CASE out = "rejected" ->
                  UNCHANGED <<pending, edits, displayed, unhandled>>
             [] out = "fetching" ->
                  /\ pending' = Append(pending, buildEmbed(data', cmd))
                  /\ UNCHANGED <<edits, displayed, unhandled>>
             [] OTHER ->
                  /\ \E ok \in BOOLEAN : Edit(buildEmbed(data', cmd), ok)
                  /\ UNCHANGED pending
    /\ UNCHANGED dropped

\* a reaction is added to ("collect") or removed from ("remove") the sent
\* message; the collector hands it to handleReaction while it runs and the
\* filter passes
ReactionEvent(kind, glyph, user) ==
    /\ pc \in {"active", "expired"}
    /\ IF pc = "active" /\ filter(glyph, user)
       THEN /\ accepted < MaxActions
            /\ handleReaction(glyph, user)
       ELSE /\ dropped' = IF filter(glyph, user) THEN "ended" ELSE "filter"
            /\ UNCHANGED <<data, pending, edits, displayed, unhandled, genCalls,
                           accepted, lastAction>>
    /\ UNCHANGED <<pc, command, channel, now, created, primary, fuzzy, firstData,
                   scoreVars, rulingVars>>

RemoveAt(seq, i) == SubSeq(seq, 1, i - 1) \o SubSeq(seq, i + 1, Len(seq))

\* the rulings request of a pager render answers: the embed resolves and the
\* message is edited
RulingsOk(i, ok) ==
    /\ pc \in {"active", "expired"}
    /\ i \in 1..Len(pending)
    /\ Edit(pending[i], ok)
    /\ pending' = RemoveAt(pending, i)
    /\ UNCHANGED <<pc, command, data, channel, now, created, genCalls, primary, fuzzy,
                   accepted, firstData, lastAction, dropped, scoreVars, rulingVars>>

\* it fails: no rejection handler, and the promise of generateEmbed never settles
RulingsFail(i) ==
    /\ pc \in {"active", "expired"}
    /\ i \in 1..Len(pending)
    /\ pending' = RemoveAt(pending, i)
    /\ unhandled' = unhandled + 1
    /\ UNCHANGED <<pc, command, data, channel, displayed, now, created, genCalls, edits,
                   primary, fuzzy, accepted, firstData, lastAction, dropped,
                   scoreVars, rulingVars>>

Next ==
    \/ \E cmd \in Commands, p \in PagerParams : HandleMessage(cmd, p)
    \/ \E kinds \in KindLists : PrimaryHits(kinds)
    \/ PrimaryEmpty
    \/ PrimaryFail
    \/ \E kind \in CardKinds : FuzzyCard(kind)
    \/ FuzzyNothing
    \/ \E status \in FailStatus : FuzzyFail(status)
    \/ FirstRulingsOk
    \/ FirstRulingsFail
    \/ SendOk
    \/ SendFail
    \/ Tick
    \/ \E kind \in {"collect", "remove"}, glyph \in Glyphs, user \in Users :
           ReactionEvent(kind, glyph, user)
    \/ \E i \in 1..MaxActions, ok \in BOOLEAN : RulingsOk(i, ok)
    \/ \E i \in 1..MaxActions : RulingsFail(i)

Spec == Init /\ [][Next]_vars

(***************************************************************************)
(* Properties of the pager.                                                *)
(***************************************************************************)
PagerExists == pc \in {"active", "expired"}
Recognized == {"left", "right", "zoom"}
Accepted == accepted' = accepted + 1
Deadline == created + CollectorTime

\* C2: whatever Next, Previous and ZoomToggle actions were handled, the list
\* holds exactly the records first rendered, each once; its length is
\* unchanged and at least 1 while a pager exists.
C2_ListIsPermutation ==
    PagerExists =>
        /\ Len(data) >= 1
        /\ Len(data) = Len(firstData)
        /\ \A id \in 1..Len(firstData) :
               Cardinality({i \in 1..Len(data) : data[i].id = id}) = 1
        /\ \A i \in 1..Len(data) :
               /\ data[i].id \in 1..Len(firstData)
               /\ data[i].kind = firstData[data[i].id].kind

C2_Witness ==
    /\ pc = "active"
    /\ accepted = 3
    /\ Len(data) = 3
    /\ data[1].id = 2
    /\ data[2].zoom

\* C3: a Next action handled right after a Previous action, or a Previous
\* right after a Next, leaves the list exactly as it was before the two.
C3_NextPreviousRestores ==
    [][(/\ PagerExists
        /\ Accepted
        /\ accepted >= 1
        /\ {lastAction.glyph, lastAction'.glyph} = {"left", "right"})
       => data' = lastAction.before]_vars

C3_Witness ==
    /\ pc = "active"
    /\ accepted = 2
    /\ Len(data) = 3
    /\ lastAction.glyph = "left"
    /\ lastAction.before = nextCard(firstData)
    /\ data = firstData

\* C4: the list, a zoom flag or the message change, and generateEmbed runs,
\* only for an event with one of the three glyphs from the requester (or when
\* the render of such an earlier event completes); an event that is dropped
\* leaves list, zoom flags and message unchanged.
C4_OnlyRequesterGlyphs ==
    [][PagerExists =>
         /\ Accepted => (lastAction'.glyph \in Recognized /\ lastAction'.user = Requester)
         /\ (data' # data \/ genCalls' # genCalls) => Accepted
         /\ (displayed' # displayed \/ edits' # edits)
                => (Accepted \/ Len(pending') < Len(pending))
         /\ dropped' # dropped
                => UNCHANGED <<data, displayed, edits, genCalls, pending, accepted>>]_vars

C4_Witness ==
    /\ pc = "active"
    /\ dropped = "filter"
    /\ accepted >= 1
    /\ data # firstData
    /\ displayed = buildEmbed(data, command)

\* C5 as stated: an action of the requester is accepted exactly when less
\* than 5 minutes have passed since the previous accepted action (or since
\* the first render).
C5_IdleTimeout ==
    [][PagerExists =>
         /\ Accepted => now - lastAction.at < CollectorTime
         /\ (dropped' = "ended" /\ dropped # "ended")
                => now - lastAction.at >= CollectorTime]_vars

\* C5 amended: an action of the requester is accepted exactly when less than
\* 5 minutes have passed since the collector was created at the first render,
\* whatever was accepted in between; from then on the pager is expired and no
\* later action changes the list, a zoom flag or the message.
C5_FixedDeadline ==
    [][PagerExists =>
         /\ Accepted => now < Deadline
         /\ (dropped' = "ended" /\ dropped # "ended") => now >= Deadline
         /\ (pc = "expired") <=> (now >= Deadline)
         /\ now >= Deadline =>
                /\ UNCHANGED <<data, accepted, genCalls, pc>>
                /\ (displayed' # displayed \/ edits' # edits)
                       => Len(pending') < Len(pending)]_vars

C5_Witness ==
    /\ pc = "expired"
    /\ dropped = "ended"
    /\ accepted >= 1
    /\ now - lastAction.at < CollectorTime

\* C6: every accepted action makes one call of generateEmbed with the command
\* first requested, a result is applied at most once, as an edit of the sent
\* message, and no more than one message is sent for a query.
C6_RenderEditsInPlace ==
    /\ Len(channel) <= 1
    /\ PagerExists =>
           /\ Len(channel) = 1 /\ channel[1].kind = "card"
           /\ genCalls = accepted + 1
           /\ edits + Len(pending) <= accepted
           /\ displayed.view = command
           /\ \A i \in 1..Len(pending) : pending[i].view = command

C6_Witness ==
    /\ pc = "active"
    /\ command = "ruling"
    /\ accepted = 3
    /\ edits = 3
    /\ pending = <<>>
    /\ Len(channel) = 1

zoomOf(cards, id) == \E i \in 1..Len(cards) : cards[i].id = id /\ cards[i].zoom

\* C7: every zoom flag is off at the first render; a flag changes only by a
\* ZoomToggle handled while its record is at the front; Next and Previous
\* change none; each render shows the flag of the record then at the front.
C7_ZoomStaysWithRecord ==
    /\ []((PagerExists /\ accepted = 0) =>
              /\ \A i \in 1..Len(data) : ~data[i].zoom
              /\ ~displayed.image)
    /\ [][PagerExists =>
            /\ \A id \in 1..Len(data) :
                   zoomOf(data', id) # zoomOf(data, id) =>
                       /\ Accepted
                       /\ lastAction'.glyph = "zoom"
                       /\ data[1].id = id /\ data'[1].id = id
            /\ (Accepted /\ lastAction'.glyph # "zoom") =>
                   \A id \in 1..Len(data) : zoomOf(data', id) = zoomOf(data, id)
            /\ (Accepted /\ displayed' # displayed) =>
                   displayed' = buildEmbed(data', command)
            /\ (Accepted /\ Len(pending') > Len(pending)) =>
                   pending'[Len(pending')] = buildEmbed(data', command)]_vars

C7_Witness ==
    /\ pc = "active"
    /\ Len(data) = 2
    /\ accepted = 3
    /\ data[1].id = 1 /\ data[1].zoom
    /\ lastAction.glyph \in {"left", "right"}
    /\ lastAction.before[1].id = 2
    /\ displayed = [card |-> 1, image |-> TRUE, view |-> command]

NoCardFound ==
    \/ primary = "empty"
    \/ primary = "fail" /\ fuzzy.result \in {"nothing", "fail"}

\* C8: for a non-empty query, when neither the primary search nor the fuzzy
\* fallback yields a card, exactly one error message is sent: the 'offline'
\* one for status 503, 'No cards matched' otherwise.
C8_ErrorMessageSent ==
    (pc = "done" /\ toLowerCase(parameter) # <<>> /\ NoCardFound) =>
        channel = <<[kind |-> "error",
                     description |-> IF fuzzy.result = "fail" /\ fuzzy.status = 503
                                     THEN "Scryfall is currently offline, please try again later."
                                     ELSE "No cards matched"]>>

\* C9: no failure while a pager action is handled (a fault in the builder, a
\* failed rulings request, a rejected edit) is left unhandled.
C9_FailuresCaught ==
    PagerExists => unhandled = 0

\* every render of an accepted action has completed and was applied
AllRendersApplied ==
    /\ PagerExists
    /\ accepted >= 1
    /\ pending = <<>>
    /\ edits = accepted
    /\ unhandled = 0

\* C11: when actions are issued before the renders of earlier ones have
\* completed, the edits are applied in the order of the actions: once every
\* pending render has completed, the message shows the record at the front of
\* the list with its current zoom flag, never the render of an earlier action.
C11_EditsInActionOrder ==
    AllRendersApplied => displayed = buildEmbed(data, command)

====
